---- MODULE Spec2Model ----
(***************************************************************************)
(* tracc: a ledger of Begin/End entries kept in one SQLite table           *)
(* entries(id, datetime, kind).  Every run of the program captures the     *)
(* wall clock once (App::try_init) and executes one command: begin, end,   *)
(* show or today.  Instants are counted in milliseconds from a local       *)
(* midnight (chrono keeps nanoseconds; the column keeps whole seconds).    *)
(* db is the table; now, cmd and result are the clock reading, the command *)
(* and the outcome of the run that finished last; inflight holds the runs  *)
(* of begin and end that have read the last entry and not yet finished.    *)
(***************************************************************************)
EXTENDS Integers, Sequences, FiniteSets, TLC

VARIABLES db, now, cmd, result, inflight

vars == <<db, now, cmd, result, inflight>>

(***************************************************************************)
(* Bounds of the model.                                                    *)
(***************************************************************************)
\* Largest number of rows the table holds in the model.
MaxEntries == 4

(***************************************************************************)
(* Clock and calendar.                                                     *)
(***************************************************************************)
MsPerSec == 1000
MsPerMin == 60 * MsPerSec
MsPerHour == 60 * MsPerMin
MsPerDay == 24 * MsPerHour

\* hh:mm:ss.mmm on the day whose local midnight is the instant `midnight` (s).
At(midnight, h, m, ms) == midnight * MsPerSec + h * MsPerHour + m * MsPerMin + ms

\* Local midnights (seconds) of the days the model's clock runs through.  The
\* first day lasts 24 hours; the second is one on which the local zone falls
\* back one hour, so it lasts 25.
LocalMidnights == <<0, 86400, 176400>>

\* The values chrono::Local::now() takes in the model (milliseconds).
NowValues ==
    { At(0, 9, 0, 0), At(0, 9, 0, 500), At(0, 12, 0, 0), At(0, 13, 0, 0),
      At(0, 13, 30, 0), At(86400, 0, 0, 0), At(86400, 24, 30, 0) }

\* Integer division truncating towards zero, as Rust's / on i64.
TruncDiv(a, b) == IF a >= 0 THEN a \div b ELSE -((-a) \div b)

\* Variant of timestamp: rounds to the nearest second.
timestamp_rounded(dt) == (dt + 500) \div MsPerSec

\* DateTime::timestamp(): whole seconds since the origin, rounded down.
timestamp(dt) == dt \div MsPerSec

\* import_datetime: the instant of a stored number of seconds, no fraction.
import_datetime(x) == x * MsPerSec

\* TimeDelta::num_days / num_hours / num_minutes: whole units, towards zero.
num_days(td) == TruncDiv(td, MsPerDay)
num_hours(td) == TruncDiv(td, MsPerHour)
num_minutes(td) == TruncDiv(td, MsPerMin)

(***************************************************************************)
(* The table.  db is the sequence of rows in insertion order; a row is     *)
(* [id, datetime, kind] with datetime in seconds.                          *)
(***************************************************************************)
KindBegin == 0
KindEnd == 1

Max(S) == CHOOSE x \in S : \A y \in S : y <= x

RowSet(d) == { d[i] : i \in 1..Len(d) }

\* INTEGER PRIMARY KEY without a value: one more than the largest rowid.
NextId(d) == IF Len(d) = 0 THEN 1 ELSE Max({ r.id : r \in RowSet(d) }) + 1

\* INSERT INTO entries (datetime, kind) VALUES (?1, kind)
Insert(d, dt, kind) == Append(d, [id |-> NextId(d), datetime |-> dt, kind |-> kind])

\* The row a result set yields first among S: ascending datetime when the
\* statement orders by it, rows of equal datetime (and unordered result
\* sets) in rowid order, which is the order of SQLite's table scan.
FirstByDatetime(S) ==
    CHOOSE r \in S : \A q \in S :
        \/ r.datetime < q.datetime
        \/ r.datetime = q.datetime /\ r.id <= q.id

FirstById(S) == CHOOSE r \in S : \A q \in S : r.id <= q.id

RECURSIVE OrderByDatetime(_)
OrderByDatetime(S) ==
    IF S = {} THEN <<>>
    ELSE LET r == FirstByDatetime(S)
         IN  <<r>> \o OrderByDatetime(S \ {r})

RECURSIVE OrderById(_)
OrderById(S) ==
    IF S = {} THEN <<>>
    ELSE LET r == FirstById(S)
         IN  <<r>> \o OrderById(S \ {r})

(***************************************************************************)
(* Entry::from_db_row                                                      *)
(***************************************************************************)
Ok(v) == [ok |-> TRUE, val |-> v]
Err(e) == [ok |-> FALSE, err |-> e]

\* Variant of from_db_row: a kind other than 0 is read as End.
from_db_row_default_end(row) ==
    LET ts == import_datetime(row.datetime)
    IN  IF row.kind = KindBegin
        THEN Ok([tag |-> "Begin", dt |-> ts])
        ELSE Ok([tag |-> "End", dt |-> ts])

from_db_row(row) ==
    LET ts == import_datetime(row.datetime)
    IN  CASE row.kind = KindBegin -> Ok([tag |-> "Begin", dt |-> ts])
          [] row.kind = KindEnd -> Ok([tag |-> "End", dt |-> ts])
          [] OTHER -> Err([kind |-> "UnknownEntryKind", found |-> row.kind,
                           id |-> row.id])

None == [tag |-> "None"]

(***************************************************************************)
(* App::get_last_entry                                                     *)
(***************************************************************************)
\* SELECT * FROM entries where datetime = (SELECT MAX(datetime) from entries)
MaxDatetimeRows(d) ==
    IF Len(d) = 0 THEN <<>>
    ELSE LET m == Max({ r.datetime : r \in RowSet(d) })
         IN  OrderById({ r \in RowSet(d) : r.datetime = m })

\* Variant of get_last_entry: takes the first row without looking for a second.
get_last_entry_first_row(d) ==
    LET rows == MaxDatetimeRows(d)
    IN  IF Len(rows) = 0 THEN Ok(None) ELSE from_db_row(rows[1])

\* Variant of get_last_entry: looks for a second row before decoding the first.
get_last_entry_tie_first(d) ==
    LET rows == MaxDatetimeRows(d)
    IN  IF Len(rows) = 0 THEN Ok(None)
        ELSE IF Len(rows) > 1 THEN Err([kind |-> "AmbiguousLedgerState"])
        ELSE from_db_row(rows[1])

get_last_entry(d) ==
    LET rows == MaxDatetimeRows(d)
    IN  IF Len(rows) = 0 THEN Ok(None)
        ELSE LET last_entry == from_db_row(rows[1])
             IN  IF ~last_entry.ok THEN last_entry
                 ELSE IF Len(rows) > 1
                      THEN Err([kind |-> "AmbiguousLedgerState"])
                      ELSE last_entry

(***************************************************************************)
(* App::add_begin and App::add_end.  Each yields the command's result and  *)
(* the table it leaves.                                                    *)
(***************************************************************************)
\* Variant of add_begin: begins whatever the last entry is.
add_begin_unchecked(d, n) ==
    LET last_entry == get_last_entry(d)
    IN  IF ~last_entry.ok THEN [res |-> last_entry, db |-> d]
        ELSE [res |-> Ok(<<>>), db |-> Insert(d, timestamp(n), KindBegin)]

add_begin(d, n) ==
    LET last_entry == get_last_entry(d)
    IN  IF ~last_entry.ok THEN [res |-> last_entry, db |-> d]
        ELSE IF last_entry.val.tag = "Begin"
             THEN [res |-> Err([kind |-> "AlreadyRunning", at |-> last_entry.val.dt]),
                   db |-> d]
             ELSE [res |-> Ok(<<>>), db |-> Insert(d, timestamp(n), KindBegin)]

\* Variant of add_end: ends whatever the last entry is.
add_end_unchecked(d, n) ==
    LET last_entry == get_last_entry(d)
    IN  IF ~last_entry.ok THEN [res |-> last_entry, db |-> d]
        ELSE IF last_entry.val.tag = "None"
             THEN [res |-> Err([kind |-> "NoPeriodToEnd"]), db |-> d]
             ELSE [res |-> Ok(<<>>), db |-> Insert(d, timestamp(n), KindEnd)]

\* Variant of add_end: inserts before it looks at the last entry.
add_end_insert_first(d, n) ==
    LET last_entry == get_last_entry(d)
        e == Insert(d, timestamp(n), KindEnd)
    IN  IF ~last_entry.ok THEN [res |-> last_entry, db |-> d]
        ELSE CASE last_entry.val.tag = "Begin" -> [res |-> Ok(<<>>), db |-> e]
               [] last_entry.val.tag = "End" ->
                    [res |-> Err([kind |-> "AlreadyIdle", at |-> last_entry.val.dt]),
                     db |-> e]
               [] OTHER ->
                    [res |-> Err([kind |-> "NoPeriodToEnd"]), db |-> e]

add_end(d, n) ==
    LET last_entry == get_last_entry(d)
    IN  IF ~last_entry.ok THEN [res |-> last_entry, db |-> d]
        ELSE CASE last_entry.val.tag = "Begin" ->
                    [res |-> Ok(<<>>), db |-> Insert(d, timestamp(n), KindEnd)]
               [] last_entry.val.tag = "End" ->
                    [res |-> Err([kind |-> "AlreadyIdle", at |-> last_entry.val.dt]),
                     db |-> d]
               [] OTHER ->
                    [res |-> Err([kind |-> "NoPeriodToEnd"]), db |-> d]

(***************************************************************************)
(* App::show: decodes the rows in datetime order and prints one line for   *)
(* each; the first row that does not decode ends the command.              *)
(***************************************************************************)
RECURSIVE show_loop(_, _, _)
show_loop(rows, i, printed) ==
    IF i > Len(rows) THEN Ok(printed)
    ELSE LET entry == from_db_row(rows[i])
         IN  IF ~entry.ok THEN entry
             ELSE show_loop(rows, i + 1, Append(printed, entry.val))

show(d) == show_loop(OrderByDatetime(RowSet(d)), 1, <<>>)

(***************************************************************************)
(* App::today                                                              *)
(***************************************************************************)
\* now.with_time(00:00:00): the local midnight that begins now's day (s).
today_start(n) ==
    LocalMidnights[Max({ i \in 1..Len(LocalMidnights) :
                            LocalMidnights[i] * MsPerSec <= n })]

\* today_start.checked_add_days(Days::new(1)): the next local midnight (s).
today_end(n) ==
    LocalMidnights[Max({ i \in 1..Len(LocalMidnights) :
                            LocalMidnights[i] * MsPerSec <= n }) + 1]

\* Variant of today_rows: the statement without its lower bound.
today_rows_no_lower_bound(d, n) ==
    OrderByDatetime({ r \in RowSet(d) : r.datetime < today_end(n) })

\* Variant of today_rows: the upper bound taken inclusive.
today_rows_inclusive_end(d, n) ==
    OrderByDatetime({ r \in RowSet(d) :
                        r.datetime >= today_start(n) /\ r.datetime <= today_end(n) })

\* SELECT * FROM entries where datetime >= ?1 and datetime < ?2 order by datetime
today_rows(d, n) ==
    OrderByDatetime({ r \in RowSet(d) :
                        r.datetime >= today_start(n) /\ r.datetime < today_end(n) })

\* Variant of today_loop: an End with no open Begin is passed over.
RECURSIVE today_loop_skipping(_, _, _, _)
today_loop_skipping(rows, i, time, current_slot_begin) ==
    IF i > Len(rows)
    THEN Ok([time |-> time, current_slot_begin |-> current_slot_begin])
    ELSE LET entry == from_db_row(rows[i])
         IN  IF ~entry.ok THEN entry
             ELSE IF entry.val.tag = "Begin"
                  THEN today_loop_skipping(rows, i + 1, time, entry.val)
                  ELSE IF current_slot_begin # None
                       THEN today_loop_skipping(rows, i + 1,
                                       time + (entry.val.dt - current_slot_begin.dt),
                                       None)
                       ELSE today_loop_skipping(rows, i + 1, time, None)

\* Variant of today_loop: a Begin met while another is open is an error.
RECURSIVE today_loop_strict(_, _, _, _)
today_loop_strict(rows, i, time, current_slot_begin) ==
    IF i > Len(rows)
    THEN Ok([time |-> time, current_slot_begin |-> current_slot_begin])
    ELSE LET entry == from_db_row(rows[i])
         IN  IF ~entry.ok THEN entry
             ELSE IF entry.val.tag = "Begin"
                  THEN IF current_slot_begin # None
                       THEN Err([kind |-> "CorruptedLedger", why |-> "Begin after Begin",
                                 at |-> entry.val.dt])
                       ELSE today_loop_strict(rows, i + 1, time, entry.val)
                  ELSE IF current_slot_begin # None
                       THEN today_loop_strict(rows, i + 1,
                                       time + (entry.val.dt - current_slot_begin.dt),
                                       None)
                       ELSE Err([kind |-> "CorruptedLedger", why |-> "End without Begin",
                                 at |-> entry.val.dt])

\* The while loop: time is the sum so far, current_slot_begin the open Begin.
RECURSIVE today_loop(_, _, _, _)
today_loop(rows, i, time, current_slot_begin) ==
    IF i > Len(rows)
    THEN Ok([time |-> time, current_slot_begin |-> current_slot_begin])
    ELSE LET entry == from_db_row(rows[i])
         IN  IF ~entry.ok THEN entry
             ELSE IF entry.val.tag = "Begin"
                  THEN today_loop(rows, i + 1, time, entry.val)
                  ELSE IF current_slot_begin # None
                       THEN today_loop(rows, i + 1,
                                       time + (entry.val.dt - current_slot_begin.dt),
                                       None)
                       ELSE Err([kind |-> "CorruptedLedger", why |-> "End without Begin",
                                 at |-> entry.val.dt])

\* Variant of today_time: the open period subtracted the other way round.
today_time_reversed(folded, n) ==
    IF folded.current_slot_begin # None
    THEN folded.time + (folded.current_slot_begin.dt - n)
    ELSE folded.time

\* The sum after the still open period, if any, is counted up to now.
today_time(folded, n) ==
    IF folded.current_slot_begin # None
    THEN folded.time + (n - folded.current_slot_begin.dt)
    ELSE folded.time

\* Variant of day_check_fails: refuses only from two days on.
day_check_above_one(time) == num_days(time) > 1

\* if time.num_days() != 0 { return Err(..) }
day_check_fails(time) == num_days(time) # 0

today(d, n) ==
    LET folded == today_loop(today_rows(d, n), 1, 0, None)
    IN  IF ~folded.ok THEN folded
        ELSE LET time == today_time(folded.val, n)
             IN  IF day_check_fails(time)
                 THEN Err([kind |-> "CorruptedLedger", why |-> "num_days",
                           time |-> time])
                 ELSE Ok([time |-> time,
                          hours |-> num_hours(time),
                          minutes |-> num_minutes(time) - num_hours(time) * 60])

(***************************************************************************)
(* One run of the program: try_init reads the clock, main dispatches.      *)
(***************************************************************************)
\* The runs that may overlap in time, and the state of one that is not running.
Procs == {1, 2}

Idle == [pc |-> "idle"]

Init ==
    /\ db = <<>>
    /\ now = 0
    /\ cmd = "none"
    /\ result = Ok(<<>>)
    /\ inflight = [p \in Procs |-> Idle]

Begin(n) ==
    LET r == add_begin(db, n)
    IN  /\ r.db = db \/ Len(db) < MaxEntries
        /\ db' = r.db
        /\ now' = n
        /\ cmd' = "begin"
        /\ result' = r.res
        /\ UNCHANGED inflight

End(n) ==
    LET r == add_end(db, n)
    IN  /\ r.db = db \/ Len(db) < MaxEntries
        /\ db' = r.db
        /\ now' = n
        /\ cmd' = "end"
        /\ result' = r.res
        /\ UNCHANGED inflight

Show(n) ==
    /\ now' = n
    /\ cmd' = "show"
    /\ result' = show(db)
    /\ UNCHANGED <<db, inflight>>

\* Variant of Today: a period still open is closed at now while summing.
Today_closing(n) ==
    /\ now' = n
    /\ cmd' = "today"
    /\ result' = today(db, n)
    /\ db' = IF get_last_entry(db).ok /\ get_last_entry(db).val.tag = "Begin"
                 /\ Len(db) < MaxEntries
             THEN Insert(db, timestamp(n), KindEnd)
             ELSE db
    /\ UNCHANGED inflight

Today(n) ==
    /\ now' = n
    /\ cmd' = "today"
    /\ result' = today(db, n)
    /\ UNCHANGED <<db, inflight>>

Run(n) == Begin(n) \/ End(n) \/ Show(n) \/ Today(n)

\* The wall clock is whatever the machine says: it may repeat or step back.
Next == \E n \in NowValues : Run(n)

Spec == Init /\ [][Next]_vars

\* Runs whose clock readings strictly increase.
NextIncreasing ==
    \E n \in NowValues :
        \/ n > now /\ Begin(n)
        \/ n > now /\ End(n)
        \/ n > now /\ Show(n)
        \/ n > now /\ Today(n)

SpecIncreasing == Init /\ [][NextIncreasing]_vars

\* Another program writes a row into the table between two runs.  The runs
\* with such a writer read the clock within one morning.
TamperedNowValues == { At(0, 9, 0, 0), At(0, 9, 0, 500), At(0, 12, 0, 0) }

TamperDatetimes == { timestamp(n) : n \in TamperedNowValues }

TamperKinds == {KindBegin, KindEnd, 2}

Tamper(dt, kind) ==
    /\ Len(db) < MaxEntries
    /\ db' = Insert(db, dt, kind)
    /\ cmd' = "tamper"
    /\ result' = Ok(<<>>)
    /\ UNCHANGED <<now, inflight>>

NextTampered ==
    \/ \E n \in TamperedNowValues : Run(n)
    \/ \E dt \in TamperDatetimes, kind \in TamperKinds : Tamper(dt, kind)

SpecTampered == Init /\ [][NextTampered]_vars

\* Runs whose clock readings never decrease (two may fall in one second).
NextNonDecreasing ==
    \E n \in NowValues :
        \/ n >= now /\ Begin(n)
        \/ n >= now /\ End(n)
        \/ n >= now /\ Show(n)
        \/ n >= now /\ Today(n)

SpecNonDecreasing == Init /\ [][NextNonDecreasing]_vars

(***************************************************************************)
(* Two runs at once.  A run of begin or end first reads the last entry     *)
(* (one SELECT) and later, in a statement of its own, inserts; no          *)
(* transaction spans the two, so steps of another run may fall between.    *)
(***************************************************************************)
\* add_begin from its match on: last_entry is what the run has read.
add_begin_after_read(last_entry, d, n) ==
    IF ~last_entry.ok THEN [res |-> last_entry, db |-> d]
    ELSE IF last_entry.val.tag = "Begin"
         THEN [res |-> Err([kind |-> "AlreadyRunning", at |-> last_entry.val.dt]),
               db |-> d]
         ELSE [res |-> Ok(<<>>), db |-> Insert(d, timestamp(n), KindBegin)]

\* add_end from its match on.
add_end_after_read(last_entry, d, n) ==
    IF ~last_entry.ok THEN [res |-> last_entry, db |-> d]
    ELSE CASE last_entry.val.tag = "Begin" ->
                [res |-> Ok(<<>>), db |-> Insert(d, timestamp(n), KindEnd)]
           [] last_entry.val.tag = "End" ->
                [res |-> Err([kind |-> "AlreadyIdle", at |-> last_entry.val.dt]),
                 db |-> d]
           [] OTHER ->
                [res |-> Err([kind |-> "NoPeriodToEnd"]), db |-> d]

\* Run p starts: it reads the clock and the last entry.
ReadLast(p, c, n) ==
    /\ inflight[p] = Idle
    /\ inflight' = [inflight EXCEPT ![p] =
                        [pc |-> "read", cmd |-> c, now |-> n,
                         last_entry |-> get_last_entry(db)]]
    /\ UNCHANGED <<db, now, cmd, result>>

BeginRead(p, n) == ReadLast(p, "begin", n)

EndRead(p, n) == ReadLast(p, "end", n)

\* Run p finishes: it matches on what it has read and inserts or fails.
Finish(p, r) ==
    /\ r.db = db \/ Len(db) < MaxEntries
    /\ db' = r.db
    /\ now' = inflight[p].now
    /\ cmd' = inflight[p].cmd
    /\ result' = r.res
    /\ inflight' = [inflight EXCEPT ![p] = Idle]

\* Variant of BeginWrite: the last entry is read again, in one transaction
\* with the insert.
BeginWrite_in_transaction(p) ==
    /\ inflight[p].pc = "read"
    /\ inflight[p].cmd = "begin"
    /\ Finish(p, add_begin(db, inflight[p].now))

BeginWrite(p) ==
    /\ inflight[p].pc = "read"
    /\ inflight[p].cmd = "begin"
    /\ Finish(p, add_begin_after_read(inflight[p].last_entry, db, inflight[p].now))

EndWrite(p) ==
    /\ inflight[p].pc = "read"
    /\ inflight[p].cmd = "end"
    /\ Finish(p, add_end_after_read(inflight[p].last_entry, db, inflight[p].now))

\* The clock readings of the overlapping runs.
RaceNowValues == { At(0, 9, 0, 0), At(0, 12, 0, 0), At(0, 13, 0, 0) }

NextRace ==
    \E p \in Procs :
        \/ \E n \in RaceNowValues : BeginRead(p, n)
        \/ \E n \in RaceNowValues : EndRead(p, n)
        \/ BeginWrite(p)
        \/ EndWrite(p)

SpecRace == Init /\ [][NextRace]_vars

(***************************************************************************)
(* Vocabulary of the properties.                                           *)
(***************************************************************************)
\* The rows carrying the maximum datetime of table d.
LatestRows(d) == { r \in RowSet(d) : \A q \in RowSet(d) : q.datetime <= r.datetime }

\* Table d has one most recent entry, and it is of the given kind.
MostRecentIs(d, kind) == \E r \in LatestRows(d) : LatestRows(d) = {r} /\ r.kind = kind

\* More than one row of d carries the maximum datetime.
Tied(d) == Cardinality(LatestRows(d)) > 1

\* The run that led to this state failed with an error of the given kind.
FailedWith(r, kind) == ~r.ok /\ r.err.kind = kind

\* Table e is table d with exactly one row appended.
AppendsOne(d, e) == Len(e) = Len(d) + 1 /\ SubSeq(e, 1, Len(d)) = d

\* Row q comes before row r when the ledger is sorted by timestamp, entries of
\* one timestamp in the order they were appended.
Precedes(q, r) ==
    \/ q.datetime < r.datetime
    \/ q.datetime = r.datetime /\ q.id < r.id

Rank(S, r) == Cardinality({ q \in S : Precedes(q, r) }) + 1

\* The rows of S, sorted, are Begin, End, Begin, End, ...
Alternates(S) == \A r \in S : r.kind = (IF Rank(S, r) % 2 = 1 THEN KindBegin ELSE KindEnd)

(***************************************************************************)
(* C1  StartPeriod fails iff the most recent entry is a Begin; EndPeriod   *)
(* fails iff the most recent entry is an End or the ledger is empty.       *)
(***************************************************************************)
\* C1 as stated: in every run of begin or end, failure is decided by the kind
\* of the one entry with the maximum timestamp alone.
C1_AsStated ==
    [][ /\ cmd' = "begin" => (~result'.ok <=> MostRecentIs(db, KindBegin))
        /\ cmd' = "end" => (~result'.ok <=> (MostRecentIs(db, KindEnd) \/ db = <<>>))
      ]_vars

\* What the code does instead of C1: begin fails iff the most recent entry is
\* a Begin or more than one entry carries the maximum timestamp; end fails
\* iff the most recent entry is an End, the ledger is empty, or more than one
\* entry carries the maximum timestamp.
C1_FailsIff ==
    [][ /\ cmd' = "begin" =>
              (~result'.ok <=> (MostRecentIs(db, KindBegin) \/ Tied(db)))
        /\ cmd' = "end" =>
              (~result'.ok <=> (MostRecentIs(db, KindEnd) \/ db = <<>> \/ Tied(db)))
      ]_vars

\* A begin has failed on a ledger whose latest Begin and End share a second.
C1_Witness ==
    /\ cmd = "begin"
    /\ FailedWith(result, "AmbiguousLedgerState")
    /\ Tied(db)

(***************************************************************************)
(* C2  A successful begin (end) appends exactly one Begin (End) entry      *)
(* stamped with now; the entries stored before stay as they were.          *)
(***************************************************************************)
\* C2 as stated: the new entry's timestamp is the instant now itself.
C2_AsStated ==
    [][ /\ (cmd' = "begin" /\ result'.ok) =>
              /\ AppendsOne(db, db')
              /\ db'[Len(db')].kind = KindBegin
              /\ db'[Len(db')].datetime * MsPerSec = now'
        /\ (cmd' = "end" /\ result'.ok) =>
              /\ AppendsOne(db, db')
              /\ db'[Len(db')].kind = KindEnd
              /\ db'[Len(db')].datetime * MsPerSec = now'
      ]_vars

\* The second s is the instant n cut down to whole seconds.
WholeSecondOf(s, n) == s * MsPerSec <= n /\ n < (s + 1) * MsPerSec

\* C2 amended: a successful begin (end) appends exactly one Begin (End) entry
\* whose timestamp is now cut down to whole seconds; every entry stored before
\* the call is still there, unchanged, and no run removes or alters an entry.
C2_AppendsOne ==
    [][ /\ (cmd' = "begin" /\ result'.ok) =>
              /\ AppendsOne(db, db')
              /\ db'[Len(db')].kind = KindBegin
              /\ WholeSecondOf(db'[Len(db')].datetime, now')
        /\ (cmd' = "end" /\ result'.ok) =>
              /\ AppendsOne(db, db')
              /\ db'[Len(db')].kind = KindEnd
              /\ WholeSecondOf(db'[Len(db')].datetime, now')
        /\ Len(db') >= Len(db) /\ SubSeq(db', 1, Len(db)) = db
      ]_vars

\* An end has succeeded half a second past a whole second.
C2_Witness ==
    /\ cmd = "end"
    /\ result.ok
    /\ now % MsPerSec # 0
    /\ Len(db) >= 2
    /\ db[Len(db)].kind = KindEnd

(***************************************************************************)
(* C3  From the empty ledger, runs of begin and end whose clock readings   *)
(* strictly increase leave entries that, sorted by timestamp, alternate    *)
(* Begin, End, Begin, ... starting with Begin.                             *)
(***************************************************************************)
\* C3: the stored entries alternate, starting with Begin (SpecIncreasing).
C3_Alternation == Alternates(RowSet(db))

\* A third entry, a Begin, has been appended after a Begin and an End.
C3_Witness ==
    /\ Len(db) >= 3
    /\ cmd = "begin"
    /\ result.ok

(***************************************************************************)
(* C4  A begin that fails with AlreadyRunning, and an end that fails with  *)
(* AlreadyIdle or NoPeriodToEnd, write nothing.                            *)
(***************************************************************************)
\* C4: the ledger after such a failed run equals the ledger before it.
C4_FailureWritesNothing ==
    [][ /\ (cmd' = "begin" /\ FailedWith(result', "AlreadyRunning")) => db' = db
        /\ (cmd' = "end" /\ FailedWith(result', "AlreadyIdle")) => db' = db
        /\ (cmd' = "end" /\ FailedWith(result', "NoPeriodToEnd")) => db' = db
      ]_vars

\* An end has been refused because the last period is already ended.
C4_Witness ==
    /\ cmd = "end"
    /\ FailedWith(result, "AlreadyIdle")
    /\ MostRecentIs(db, KindEnd)

(***************************************************************************)
(* C5  Over a range whose entries alternate Begin, End, ... today returns  *)
(* the sum of the closed periods plus, when the last entry is a Begin, the *)
(* time from that Begin to now.                                            *)
(***************************************************************************)
\* The entries of table d that fall in the day of instant n.
Window(d, n) ==
    { r \in RowSet(d) : today_start(n) <= r.datetime /\ r.datetime < today_end(n) }

RowAt(S, k) == CHOOSE r \in S : Rank(S, r) = k

\* End - Begin summed over the pairs (1,2), (3,4), ... up to rank k.
RECURSIVE ClosedPeriods(_, _)
ClosedPeriods(S, k) ==
    IF k < 2 THEN 0
    ELSE IF k % 2 = 1 THEN ClosedPeriods(S, k - 1)
    ELSE (RowAt(S, k).datetime - RowAt(S, k - 1).datetime) * MsPerSec
         + ClosedPeriods(S, k - 2)

OpenPeriod(S, n) ==
    IF Cardinality(S) % 2 = 1
    THEN n - RowAt(S, Cardinality(S)).datetime * MsPerSec
    ELSE 0

ExpectedTotal(S, n) == ClosedPeriods(S, Cardinality(S)) + OpenPeriod(S, n)

\* Begin@09:00, End@12:00, Begin@13:00 read at 13:30 of the same day.
ExampleDay ==
    /\ now = At(0, 13, 30, 0)
    /\ { [datetime |-> r.datetime, kind |-> r.kind] : r \in RowSet(db) } =
          { [datetime |-> timestamp(At(0, 9, 0, 0)), kind |-> KindBegin],
            [datetime |-> timestamp(At(0, 12, 0, 0)), kind |-> KindEnd],
            [datetime |-> timestamp(At(0, 13, 0, 0)), kind |-> KindBegin] }
    /\ Len(db) = 3

\* C5 as stated: whenever the day's entries alternate, today succeeds and its
\* total is the sum of the periods; on the example day it reports 4:30.
C5_AsStated ==
    cmd = "today" =>
        /\ Alternates(Window(db, now)) =>
              /\ result.ok
              /\ result.val.time = ExpectedTotal(Window(db, now), now)
        /\ ExampleDay => result.ok /\ result.val.hours = 4 /\ result.val.minutes = 30

\* What the code does keep of C5: the sum it folds is the sum of the periods,
\* and it is returned unless the day check refuses it.
C5_UpToDayCheck ==
    (cmd = "today" /\ Alternates(Window(db, now))) =>
        LET total == ExpectedTotal(Window(db, now), now)
        IN  IF result.ok THEN result.val.time = total
            ELSE /\ FailedWith(result, "CorruptedLedger")
                 /\ result.err.why = "num_days"
                 /\ result.err.time = total
                 /\ total >= MsPerDay \/ total <= -MsPerDay

\* The example day has been summarized.
C5_ExampleReached == cmd = "today" /\ ExampleDay /\ result.ok

(***************************************************************************)
(* C6  An End met while no Begin of the range is open makes today fail     *)
(* with CorruptedLedger naming that End; it is never skipped.              *)
(***************************************************************************)
\* Rank k of S holds an End with no open Begin before it, and every entry
\* before it is a Begin or an End that closed a Begin.
DanglingEndAt(S, k) ==
    /\ RowAt(S, k).kind = KindEnd
    /\ k = 1 \/ RowAt(S, k - 1).kind = KindEnd
    /\ \A j \in 1..(k - 1) :
          /\ RowAt(S, j).kind \in {KindBegin, KindEnd}
          /\ RowAt(S, j).kind = KindEnd => (j > 1 /\ RowAt(S, j - 1).kind = KindBegin)

\* C6: when the day's entries hold such an End, today fails with
\* CorruptedLedger at that End's timestamp, whatever follows it.
C6_DanglingEnd ==
    cmd = "today" =>
        \A k \in 1..Cardinality(Window(db, now)) :
            DanglingEndAt(Window(db, now), k) =>
                /\ FailedWith(result, "CorruptedLedger")
                /\ result.err.why = "End without Begin"
                /\ result.err.at = RowAt(Window(db, now), k).datetime * MsPerSec

\* today has failed on an End that follows a closed period and is itself
\* followed by a further entry.
C6_Witness ==
    /\ cmd = "today"
    /\ \E k \in 2..Cardinality(Window(db, now)) - 1 : DanglingEndAt(Window(db, now), k)
    /\ FailedWith(result, "CorruptedLedger")

(***************************************************************************)
(* C7  show and today never change the ledger, and either of them run      *)
(* twice in a row with the same now gives the same result.                 *)
(***************************************************************************)
\* C7: a run of show or today leaves the table as it was, failed or not, and
\* repeats the result of the same command run just before at the same now.
C7_ReadOnly ==
    [][ /\ cmd' \in {"show", "today"} => db' = db
        /\ (cmd' \in {"show", "today"} /\ cmd' = cmd /\ now' = now) => result' = result
      ]_vars

\* today has failed on a ledger of three entries (and left it alone).
C7_Witness ==
    /\ cmd = "today"
    /\ ~result.ok
    /\ Len(db) = 3

(***************************************************************************)
(* C8  When more than one entry carries the maximum timestamp, begin and   *)
(* end fail with AmbiguousLedgerState and write nothing.                   *)
(***************************************************************************)
\* C8 as stated.
C8_AsStated ==
    [][ (cmd' \in {"begin", "end"} /\ Tied(db)) =>
            FailedWith(result', "AmbiguousLedgerState") /\ db' = db
      ]_vars

\* The tied row the statement yields first (the one of lowest id) decodes.
FirstTiedDecodes(d) ==
    \A r \in LatestRows(d) :
        (\A q \in LatestRows(d) : r.id <= q.id) => r.kind \in {KindBegin, KindEnd}

\* C8 amended: when more than one entry carries the maximum timestamp, begin
\* and end both fail and write nothing; the failure is AmbiguousLedgerState
\* when the first of the tied rows has kind 0 or 1, and UnknownEntryKind when
\* it has not.
C8_TieFails ==
    [][ (cmd' \in {"begin", "end"} /\ Tied(db)) =>
            /\ db' = db
            /\ IF FirstTiedDecodes(db)
               THEN FailedWith(result', "AmbiguousLedgerState")
               ELSE FailedWith(result', "UnknownEntryKind")
      ]_vars

\* An end has failed on two Begins of the same second.
C8_Witness ==
    /\ cmd = "end"
    /\ FailedWith(result, "AmbiguousLedgerState")
    /\ \E q, r \in LatestRows(db) : q # r /\ q.kind = KindBegin /\ r.kind = KindBegin

(***************************************************************************)
(* C9  With no entry in today's range today returns zero; on an empty      *)
(* ledger end fails with NoPeriodToEnd.                                    *)
(***************************************************************************)
\* C9: an empty day gives 0:00, and an end that leaves the ledger empty has
\* failed with NoPeriodToEnd.
C9_EmptyLedger ==
    /\ (cmd = "today" /\ Window(db, now) = {}) =>
          /\ result.ok
          /\ result.val.time = 0
          /\ result.val.hours = 0
          /\ result.val.minutes = 0
    /\ (cmd = "end" /\ db = <<>>) => FailedWith(result, "NoPeriodToEnd")

\* today has returned zero on a day without entries while the ledger holds
\* entries of another day.
C9_Witness ==
    /\ cmd = "today"
    /\ Window(db, now) = {}
    /\ db # <<>>
    /\ result.ok

(***************************************************************************)
(* C10  today never returns a total of more than 24 hours: such a total    *)
(* makes it fail with CorruptedLedger.                                     *)
(***************************************************************************)
\* C10: a total that today returns is at most 24 hours, and when the periods
\* of an alternating day add up to more the run fails with CorruptedLedger.
C10_DayCheck ==
    cmd = "today" =>
        /\ result.ok => result.val.time <= MsPerDay
        /\ (/\ Alternates(Window(db, now))
            /\ ExpectedTotal(Window(db, now), now) > MsPerDay) =>
              FailedWith(result, "CorruptedLedger")

\* today has refused a total of more than 24 hours.
C10_Witness ==
    /\ cmd = "today"
    /\ FailedWith(result, "CorruptedLedger")
    /\ result.err.why = "num_days"
    /\ result.err.time > MsPerDay

(***************************************************************************)
(* C11  No terminal state: after runs of begin and end whose clock         *)
(* readings never decrease, exactly one of begin and end would succeed.    *)
(***************************************************************************)
BeginWouldSucceed(d) == \E n \in NowValues : add_begin(d, n).res.ok

EndWouldSucceed(d) == \E n \in NowValues : add_end(d, n).res.ok

\* C11 as stated: in every reachable state the engine is Idle (begin would
\* succeed, end would not) or Running (end would succeed, begin would not).
C11_AsStated == BeginWouldSucceed(db) # EndWouldSucceed(db)

\* What the code does instead: once neither command can succeed, neither
\* ever can again.
C11_StuckStays ==
    [][ (~BeginWouldSucceed(db) /\ ~EndWouldSucceed(db)) =>
            (~BeginWouldSucceed(db') /\ ~EndWouldSucceed(db')) ]_vars

(***************************************************************************)
(* C12  The successful calls alternate begin, end, begin, ... starting     *)
(* with a begin.                                                           *)
(***************************************************************************)
\* The rows of d, in the order they were inserted, are Begin, End, Begin, ...
\* Every successful begin or end inserts one row, so this is the order of the
\* successful calls.
SuccessesAlternate(d) ==
    \A i \in 1..Len(d) : d[i].kind = (IF i % 2 = 1 THEN KindBegin ELSE KindEnd)

\* No row of d was inserted with a timestamp earlier than one stored before it.
NeverEarlier(d) == \A i, j \in 1..Len(d) : i < j => d[i].datetime <= d[j].datetime

\* C12 as stated: whatever the clock readings, the successful calls alternate.
C12_AsStated == SuccessesAlternate(db)

\* C12 amended: as long as no successful call was passed a now earlier than
\* the timestamp of an entry already stored, the successful calls alternate
\* begin, end, begin, ... starting with a begin.
C12_SuccessesAlternate == NeverEarlier(db) => SuccessesAlternate(db)

\* Four calls have succeeded with clock readings that never went back, two of
\* them within one second.
C12_Witness ==
    /\ Len(db) = 4
    /\ NeverEarlier(db)
    /\ \E i \in 1..3 : db[i].datetime = db[i + 1].datetime
    /\ cmd = "end"
    /\ result.ok

(***************************************************************************)
(* C13  The read of the last entry and the insert are separate steps: two  *)
(* overlapping begins on an Idle ledger can both insert, and so can two    *)
(* overlapping ends on a Running ledger.                                   *)
(***************************************************************************)
\* This step finishes run p, which was running command c.
Finishes(p, c) ==
    /\ inflight[p].pc = "read"
    /\ inflight[p].cmd = c
    /\ inflight'[p] = Idle

\* C13: whether a run inserts is decided by the last entry it read, whatever
\* the table holds by the time it inserts: a begin that read no entry or an
\* End appends a Begin, an end that read a Begin appends an End.
C13_StaleReadDecides ==
    [][ \A p \in Procs :
          /\ (/\ Finishes(p, "begin")
              /\ inflight[p].last_entry.ok
              /\ inflight[p].last_entry.val.tag # "Begin") =>
                 /\ result'.ok
                 /\ AppendsOne(db, db')
                 /\ db'[Len(db')].kind = KindBegin
          /\ (/\ Finishes(p, "end")
              /\ inflight[p].last_entry.ok
              /\ inflight[p].last_entry.val.tag = "Begin") =>
                 /\ result'.ok
                 /\ AppendsOne(db, db')
                 /\ db'[Len(db')].kind = KindEnd
      ]_vars

\* Two begins that overlapped on the empty ledger have both inserted, and then
\* two ends that overlapped have both inserted: Begin, Begin, End, End.
C13_Witness ==
    /\ Len(db) = 4
    /\ db[1].kind = KindBegin /\ db[2].kind = KindBegin
    /\ db[3].kind = KindEnd /\ db[4].kind = KindEnd
    /\ db[1].datetime < db[2].datetime
    /\ \A p \in Procs : inflight[p] = Idle
    /\ cmd = "end"
    /\ result.ok

(***************************************************************************)
(* C14  Two Begins of the range with no End between them raise no error:   *)
(* the later one replaces the open one, and the time between the two is    *)
(* not counted.                                                            *)
(***************************************************************************)
\* Every entry of S is a Begin or an End, and every End follows a Begin.
EveryEndFollowsBegin(S) ==
    \A k \in 1..Cardinality(S) :
        /\ RowAt(S, k).kind \in {KindBegin, KindEnd}
        /\ RowAt(S, k).kind = KindEnd => (k > 1 /\ RowAt(S, k - 1).kind = KindBegin)

\* S holds two Begins B1 < B2 with no entry between them.
HasBeginAfterBegin(S) ==
    \E k \in 1..(Cardinality(S) - 1) :
        /\ RowAt(S, k).kind = KindBegin
        /\ RowAt(S, k + 1).kind = KindBegin
        /\ RowAt(S, k).datetime < RowAt(S, k + 1).datetime

\* Each End counted from the Begin just before it, up to rank k.
RECURSIVE TimeToEnds(_, _)
TimeToEnds(S, k) ==
    IF k < 2 THEN 0
    ELSE (IF RowAt(S, k).kind = KindEnd
          THEN (RowAt(S, k).datetime - RowAt(S, k - 1).datetime) * MsPerSec
          ELSE 0) + TimeToEnds(S, k - 1)

\* The total when a later Begin replaces the open one: every End counted from
\* the Begin just before it, and now from the last entry if that is a Begin.
TotalFromLastBegins(S, n) ==
    TimeToEnds(S, Cardinality(S))
    + (IF S # {} /\ RowAt(S, Cardinality(S)).kind = KindBegin
       THEN n - RowAt(S, Cardinality(S)).datetime * MsPerSec
       ELSE 0)

\* C14: with a Begin after a Begin (and no End without a Begin) the fold
\* raises no error and its total counts every End from the Begin just before
\* it, and now from a last Begin; today returns that total (the day check
\* refuses it only when it reaches 24 hours).
C14_LaterBeginReplaces ==
    (/\ cmd = "today"
     /\ EveryEndFollowsBegin(Window(db, now))
     /\ HasBeginAfterBegin(Window(db, now))) =>
        LET total == TotalFromLastBegins(Window(db, now), now)
        IN  IF -MsPerDay < total /\ total < MsPerDay
            THEN result.ok /\ result.val.time = total
            ELSE /\ FailedWith(result, "CorruptedLedger")
                 /\ result.err.why = "num_days"
                 /\ result.err.time = total

\* today has summed Begin, Begin, End: only the time from the second Begin to
\* the End.
C14_Witness ==
    /\ cmd = "today"
    /\ result.ok
    /\ Cardinality(Window(db, now)) = 3
    /\ HasBeginAfterBegin(Window(db, now))
    /\ RowAt(Window(db, now), 3).kind = KindEnd
    /\ result.val.time =
          (RowAt(Window(db, now), 3).datetime - RowAt(Window(db, now), 2).datetime)
          * MsPerSec

(***************************************************************************)
(* C15  today depends only on now and on the entries with                  *)
(* start of day <= t < start of next day.                                  *)
(***************************************************************************)
\* Table d without the rows outside the day of instant n.
WindowTable(d, n) == OrderById(Window(d, n))

\* C15: the result of today is the result on the ledger stripped of every
\* entry outside [start of day, start of next day); an entry at the start of
\* the day is kept by that, an entry at the start of the next day is not.
C15_WindowOnly == cmd = "today" => result = today(WindowTable(db, now), now)

\* today has met an End stored exactly at the start of the day, while the
\* Begin it belongs to, stored the day before, was not brought in.
C15_Witness ==
    /\ cmd = "today"
    /\ FailedWith(result, "CorruptedLedger")
    /\ result.err.why = "End without Begin"
    /\ result.err.at = today_start(now) * MsPerSec
    /\ \E r \in RowSet(db) : r.kind = KindBegin /\ r.datetime < today_start(now)

(***************************************************************************)
(* C16  Decoding an entry whose kind is neither 0 nor 1 fails with         *)
(* UnknownEntryKind, and nothing is written.                               *)
(***************************************************************************)
UnknownKind(r) == r.kind \notin {KindBegin, KindEnd}

\* The row the most-recent statement yields first: of the rows with the
\* maximum datetime, the one stored first.
FirstLatest(d) == CHOOSE r \in LatestRows(d) : \A q \in LatestRows(d) : r.id <= q.id

\* The first row of S, sorted, whose kind is unknown.
FirstUnknown(S) ==
    CHOOSE r \in S : UnknownKind(r) /\ \A q \in S : UnknownKind(q) => ~Precedes(q, r)

\* The result is the UnknownEntryKind failure that names row r.
UnknownKindAt(res, r) ==
    /\ FailedWith(res, "UnknownEntryKind")
    /\ res.err.found = r.kind
    /\ res.err.id = r.id

\* C16: begin and end fail with UnknownEntryKind when the most recent entry
\* (of several with one timestamp, the first stored) has a kind outside
\* {0, 1}; show fails with it when any entry has such a kind; today fails with
\* it when an entry of the day has such a kind, unless an End without Begin
\* comes before that entry, which fails the fold with CorruptedLedger.  The
\* failure names the first such entry met, and the ledger is left as it was.
C16_UnknownKind ==
    [][ /\ (cmd' \in {"begin", "end"} /\ Len(db) > 0 /\ UnknownKind(FirstLatest(db))) =>
                UnknownKindAt(result', FirstLatest(db)) /\ db' = db
        /\ (cmd' = "show" /\ \E r \in RowSet(db) : UnknownKind(r)) =>
                UnknownKindAt(result', FirstUnknown(RowSet(db))) /\ db' = db
        /\ (cmd' = "today" /\ \E r \in Window(db, now') : UnknownKind(r)) =>
                LET W == Window(db, now')
                    b == FirstUnknown(W)
                IN  /\ db' = db
                    /\ IF \E j \in 1..(Rank(W, b) - 1) : DanglingEndAt(W, j)
                       THEN FailedWith(result', "CorruptedLedger")
                       ELSE UnknownKindAt(result', b)
      ]_vars

\* An end has failed with UnknownEntryKind on a ledger whose one most recent
\* entry, stored after a Begin, has kind 2.
C16_Witness ==
    /\ cmd = "end"
    /\ Len(db) > 1
    /\ LatestRows(db) = {FirstLatest(db)}
    /\ UnknownKind(FirstLatest(db))
    /\ UnknownKindAt(result, FirstLatest(db))
    /\ \E r \in RowSet(db) : r.kind = KindBegin

(***************************************************************************)
(* C17  Round trip: what begin and end write is read back by show and by   *)
(* the most-recent query with the same kind and instant.                   *)
(***************************************************************************)
\* Instant n cut down to whole seconds.
WholeSeconds(n) == n - (n % MsPerSec)

\* The entry show gives for row r of table d.
ListedAs(d, r) == show(d).val[Rank(RowSet(d), r)]

\* C17 as stated: after a successful begin (end) at T the row written has
\* kind 0 (1), and both show and the most-recent query give it back as Begin
\* (End) at T in whole seconds.
C17_AsStated ==
    [][ \A c \in {"begin", "end"} :
          (cmd' = c /\ result'.ok) =>
              LET row == db'[Len(db')]
                  entry == [tag |-> IF c = "begin" THEN "Begin" ELSE "End",
                            dt |-> WholeSeconds(now')]
              IN  /\ row.kind = (IF c = "begin" THEN KindBegin ELSE KindEnd)
                  /\ show(db').ok
                  /\ ListedAs(db', row) = entry
                  /\ get_last_entry(db') = Ok(entry)
      ]_vars

\* What the code does: show always gives the entry back; the most-recent
\* query gives it back when no other entry has its timestamp or a later one.
C17_RoundTrip ==
    [][ \A c \in {"begin", "end"} :
          (cmd' = c /\ result'.ok) =>
              LET row == db'[Len(db')]
                  entry == [tag |-> IF c = "begin" THEN "Begin" ELSE "End",
                            dt |-> WholeSeconds(now')]
              IN  /\ row.kind = (IF c = "begin" THEN KindBegin ELSE KindEnd)
                  /\ show(db').ok
                  /\ ListedAs(db', row) = entry
                  /\ LatestRows(db') = {row} => get_last_entry(db') = Ok(entry)
                  /\ Tied(db') => FailedWith(get_last_entry(db'), "AmbiguousLedgerState")
      ]_vars

(***************************************************************************)
(* C18  On a ledger written by begin and end alone, under a clock that     *)
(* only moves forward, today never fails with CorruptedLedger.             *)
(***************************************************************************)
\* C18 as stated.
C18_AsStated == cmd = "today" => ~FailedWith(result, "CorruptedLedger")

\* What the code does: it finds no End without Begin when the whole ledger
\* lies in the day of now.
C18_WithinTheDay ==
    (cmd = "today" /\ Window(db, now) = RowSet(db)) =>
        ~(FailedWith(result, "CorruptedLedger") /\ result.err.why = "End without Begin")

(***************************************************************************)
(* C19  On a day of 24 hours, with no entry of the day later than now, the *)
(* total is at least zero and less than 24 hours.                          *)
(***************************************************************************)
\* The day of instant n lasts 24 hours, and no entry of table d in that day
\* is later than n.
PlainDay(d, n) ==
    /\ (today_end(n) - today_start(n)) * MsPerSec = MsPerDay
    /\ \A r \in Window(d, n) : r.datetime * MsPerSec <= n

\* C19: on such a day, whatever the entries of the day are, today does not
\* fail the day check, and the total it returns is at least zero, less than
\* 24 hours, and no more than the time from the start of the day to now.
C19_TotalWithinDay ==
    (cmd = "today" /\ PlainDay(db, now)) =>
        /\ ~(FailedWith(result, "CorruptedLedger") /\ result.err.why = "num_days")
        /\ result.ok =>
              /\ 0 <= result.val.time
              /\ result.val.time < MsPerDay
              /\ result.val.time <= now - today_start(now) * MsPerSec
              /\ result.val.hours >= 0
              /\ result.val.minutes >= 0

\* today has returned a total above zero on such a day, whose entries do not
\* alternate: a Begin follows a Begin.
C19_Witness ==
    /\ cmd = "today"
    /\ PlainDay(db, now)
    /\ \E k \in 1..(Cardinality(Window(db, now)) - 1) :
          /\ RowAt(Window(db, now), k).kind = KindBegin
          /\ RowAt(Window(db, now), k + 1).kind = KindBegin
    /\ result.ok
    /\ result.val.time > 0

====
